---- MODULE Spec2Model ----
(***************************************************************************)
(* A model of PDF_to_comments.py: the chapter map, the comment classifier, *)
(* the annotation pipeline, the context truncation, the three markdown     *)
(* reports and the document handle's lifecycle in main.                    *)
(*                                                                         *)
(* Text is a sequence of one-character strings, so that prefixes, trimming *)
(* upper-casing, slicing and the lexicographic order of Python's str are   *)
(* computed and not assumed.                                               *)
(***************************************************************************)
EXTENDS Integers, Sequences, FiniteSets, TLC

\* ------------------------------------------------------------------ bounds
MaxPad == 1         \* whitespace characters put around a classified text
MaxToc == 2         \* outline entries of a document
MaxPages == 3       \* pages of a document in the chapter map runs
MaxAnnots == 2      \* annotations of a document in the pipeline runs
ReportPages == 10   \* pages of a document in the report runs
Slack == 2          \* how far around the window's edges the context lengths go

\* ------------------------------------------------------------------ text
\* The characters used, in ascending code point order (Python compares str by
\* code point).
Ascii ==
  << "\t", "\n", " ", "*", "-", ".",
     "0", "1", "2", "3", "4", "5", "6", "7", "8", "9", ":", "?",
     "A", "B", "C", "D", "E", "F", "G", "H", "I", "J", "K", "L", "M",
     "N", "O", "P", "Q", "R", "S", "T", "U", "V", "W", "X", "Y", "Z", "\\",
     "a", "b", "c", "d", "e", "f", "g", "h", "i", "j", "k", "l", "m",
     "n", "o", "p", "q", "r", "s", "t", "u", "v", "w", "x", "y", "z" >>

Ord(c) == CHOOSE i \in 1..Len(Ascii) : Ascii[i] = c

LowerCase ==
  << "a", "b", "c", "d", "e", "f", "g", "h", "i", "j", "k", "l", "m",
     "n", "o", "p", "q", "r", "s", "t", "u", "v", "w", "x", "y", "z" >>

UpperCase ==
  << "A", "B", "C", "D", "E", "F", "G", "H", "I", "J", "K", "L", "M",
     "N", "O", "P", "Q", "R", "S", "T", "U", "V", "W", "X", "Y", "Z" >>

Whitespace == {" ", "\t", "\n"}

\* str.upper() on one character.
UpperChar(c) ==
  IF \E i \in 1..Len(LowerCase) : LowerCase[i] = c
    THEN UpperCase[CHOOSE i \in 1..Len(LowerCase) : LowerCase[i] = c]
    ELSE c

\* str.upper()
upper(s) == [i \in 1..Len(s) |-> UpperChar(s[i])]

\* str.strip(): drops the leading and the trailing whitespace.
strip(s) ==
  LET keep == {i \in 1..Len(s) : s[i] \notin Whitespace}
  IN  IF keep = {} THEN << >>
      ELSE LET lo == CHOOSE i \in keep : \A j \in keep : i <= j
               hi == CHOOSE i \in keep : \A j \in keep : j <= i
           IN  SubSeq(s, lo, hi)

\* str.startswith(prefix)
startswith(s, prefix) ==
  /\ Len(s) >= Len(prefix)
  /\ SubSeq(s, 1, Len(prefix)) = prefix

\* The order of Python's str: by code point, a proper prefix first.
RECURSIVE StrLess(_, _)
StrLess(a, b) ==
  IF b = << >> THEN FALSE
  ELSE IF a = << >> THEN TRUE
  ELSE IF a[1] # b[1] THEN Ord(a[1]) < Ord(b[1])
  ELSE StrLess(Tail(a), Tail(b))

\* ------------------------------------------------------------------ CommentType
QUESTION == << "Q" >>
NOTE == << "N", "o", "t", "e" >>
CORRECTION == << "C", "o", "r", "r", "e", "c", "t", "i", "o", "n" >>
ERROR == << "E", "r", "r", "o", "r" >>
TYPO == << "T", "y", "p", "o" >>

CommentType == {QUESTION, NOTE, CORRECTION, ERROR, TYPO}

\* ------------------------------------------------------------------ classify_comment
classify_comment_no_strip(comment_text) ==
  LET comment_text_upper == upper(comment_text)
  IN  IF \/ startswith(comment_text_upper, << "Q", " " >>)
         \/ startswith(comment_text_upper, << "Q", "-" >>)
        THEN QUESTION
      ELSE IF startswith(comment_text_upper, upper(CORRECTION)) THEN CORRECTION
      ELSE IF startswith(comment_text_upper, upper(ERROR)) THEN ERROR
      ELSE IF startswith(comment_text_upper, upper(TYPO)) THEN TYPO
      ELSE IF startswith(comment_text_upper, upper(NOTE)) THEN NOTE
      ELSE NOTE

classify_comment(comment_text) ==
  LET comment_text_upper == upper(strip(comment_text))
  IN  IF \/ startswith(comment_text_upper, << "Q", " " >>)
         \/ startswith(comment_text_upper, << "Q", "-" >>)
        THEN QUESTION
      ELSE IF startswith(comment_text_upper, upper(CORRECTION)) THEN CORRECTION
      ELSE IF startswith(comment_text_upper, upper(ERROR)) THEN ERROR
      ELSE IF startswith(comment_text_upper, upper(TYPO)) THEN TYPO
      ELSE IF startswith(comment_text_upper, upper(NOTE)) THEN NOTE
      ELSE NOTE

\* ------------------------------------------------------------------ state
VARIABLES
  \* the run's inputs: the command line, the document and the file system
  debug,               \* --debug
  open_raises,         \* fitz.open raises on the file
  page_count,          \* len(self.doc)
  toc,                 \* self.doc.get_toc(): a sequence of [level, title, page_num]
  toc_raises,          \* self.doc.get_toc() raises
  annots,              \* annots[p]: the annotations page p lists, in document order
  annots_raises,       \* the page whose page.annots() raises, 0 for none
  write_raises,        \* the report (1..3) whose open() raises IOError, 0 for none
  \* main and the extractor
  pc,                  \* where main is
  doc,                 \* the document handle: "none", "open" or "closed"
  used_closed,         \* the handle was used after it was closed
  exit_code,           \* main's result: "running", "0", "1", or "exception"
  chapter_map,         \* self.chapter_map
  current_chapter,     \* _build_chapter_map's current_chapter
  toc_idx,             \* the outline entry _build_chapter_map is at
  page_num,            \* extract_comments' page_num (0-based)
  annot_idx,           \* the annotation of the page extract_comments is at
  comments,            \* self.comments
  skipped_annotations, \* self.skipped_annotations
  comment_count,       \* extract_comments' comment_count
  total_annotations,   \* extract_comments' total_annotations
  warnings,            \* the "Warning: Error processing annotation" lines printed
  reports,             \* the three files written: comments, corrections, questions
  \* classify_comment and get_context_text applied to one input
  cc_text,             \* classify_comment's comment_text
  cc_result,           \* its result, << >> before the call
  gc_input,            \* get_context_text's collected context
  gc_result            \* its result, << >> before the call

inputs == << debug, open_raises, page_count, toc, toc_raises, annots,
             annots_raises, write_raises >>
extractor == << chapter_map, current_chapter, toc_idx, page_num, annot_idx,
                comments, skipped_annotations, comment_count,
                total_annotations, warnings >>
functions == << cc_text, cc_result, gc_input, gc_result >>
vars == << inputs, pc, doc, used_closed, exit_code, extractor, reports, functions >>

MAX_PAGE_COUNT == 10000

UnknownChapter ==
  << "U", "n", "k", "n", "o", "w", "n", " ", "C", "h", "a", "p", "t", "e", "r" >>
Introduction ==
  << "I", "n", "t", "r", "o", "d", "u", "c", "t", "i", "o", "n" >>
Results == << "R", "e", "s", "u", "l", "t", "s" >>

EmptyMap == [p \in {} |-> << >>]

\* PDFCommentExtractor.__init__, and main before open_pdf
ExtractorInit ==
  /\ pc = "open_pdf"
  /\ doc = "none"
  /\ used_closed = FALSE
  /\ exit_code = "running"
  /\ chapter_map = EmptyMap
  /\ current_chapter = << >>
  /\ toc_idx = 0
  /\ page_num = 0
  /\ annot_idx = 0
  /\ comments = << >>
  /\ skipped_annotations = EmptyMap
  /\ comment_count = 0
  /\ total_annotations = 0
  /\ warnings = 0
  /\ reports = << >>

\* No call of classify_comment / get_context_text on its own.
FunctionsIdle ==
  /\ cc_text = << >>
  /\ cc_result = << >>
  /\ gc_input = << >>
  /\ gc_result = << >>

\* ------------------------------------------------------------------ chapter map
\* range(page_num, len(self.doc) + 1) with "if p not in self.chapter_map"
assign_pages_overwrite(map, start, count, chapter) ==
  [p \in DOMAIN map \cup (start..count) |->
     IF p \in start..count THEN chapter ELSE map[p]]

assign_pages_short(map, start, count, chapter) ==
  [p \in DOMAIN map \cup (start..(count - 1)) |->
     IF p \in DOMAIN map THEN map[p] ELSE chapter]

assign_pages(map, start, count, chapter) ==
  [p \in DOMAIN map \cup (start..count) |->
     IF p \in DOMAIN map THEN map[p] ELSE chapter]

\* "if level <= 2: current_chapter = title"
next_chapter(current, entry) ==
  IF entry.level <= 2 THEN entry.title ELSE current

\* str(n) for n >= 0
RECURSIVE str(_)
str(n) ==
  IF n < 10 THEN << Ascii[Ord("0") + n] >>
  ELSE str(n \div 10) \o << Ascii[Ord("0") + (n % 10)] >>

\* f"Page {page_num}"
PageKey(n) == << "P", "a", "g", "e", " " >> \o str(n)

get_chapter_for_page(map, n) ==
  IF n \in DOMAIN map THEN map[n] ELSE PageKey(n)

\* A test for a map that has any title at all.
has_useful_chapters_any(map) ==
  Cardinality({map[p] : p \in DOMAIN map}) > 0

has_useful_chapters(map) ==
  Cardinality({map[p] : p \in DOMAIN map}) > 1

\* The handle is used: a use after close() is recorded.
UseDoc == used_closed' = (used_closed \/ doc = "closed")

\* open_pdf as main calls it, up to the outline's first entry. The path and
\* size checks have passed in main already (_validate_path is called twice).
OpenPdf ==
  /\ pc = "open_pdf"
  /\ IF open_raises
       THEN \* except: self.doc is None, return False; main returns 1
            /\ pc' = "done"
            /\ exit_code' = "1"
            /\ UNCHANGED << doc, current_chapter, toc_idx >>
     ELSE IF page_count > MAX_PAGE_COUNT
       THEN \* self.doc.close(); return False; main returns 1
            /\ doc' = "closed"
            /\ pc' = "done"
            /\ exit_code' = "1"
            /\ UNCHANGED << current_chapter, toc_idx >>
     ELSE IF toc_raises \/ toc = << >>
       THEN \* _build_chapter_map returns with the map as it is
            /\ doc' = "open"
            /\ pc' = "extract_comments"
            /\ UNCHANGED << exit_code, current_chapter, toc_idx >>
     ELSE   /\ doc' = "open"
            /\ pc' = "build_chapter_map"
            /\ current_chapter' = UnknownChapter
            /\ toc_idx' = 1
            /\ UNCHANGED exit_code
  /\ UNCHANGED << inputs, used_closed, chapter_map, page_num, annot_idx,
                  comments, skipped_annotations, comment_count,
                  total_annotations, warnings, reports, functions >>

\* One iteration of "for level, title, page_num in toc", with its inner loop;
\* after the last entry open_pdf returns True.
BuildChapterMapEntry ==
  /\ pc = "build_chapter_map"
  /\ LET entry == toc[toc_idx]
         chapter == next_chapter(current_chapter, entry)
     IN  /\ current_chapter' = chapter
         /\ chapter_map' = assign_pages(chapter_map, entry.page_num, page_count, chapter)
  /\ toc_idx' = toc_idx + 1
  /\ pc' = IF toc_idx = Len(toc) THEN "extract_comments" ELSE pc
  /\ UseDoc
  /\ UNCHANGED << inputs, doc, exit_code, page_num, annot_idx, comments,
                  skipped_annotations, comment_count, total_annotations,
                  warnings, reports, functions >>

\* ------------------------------------------------------------------ chapter map runs
Levels == {1, 2, 3}
Titles == {Introduction, Results}
TocPages == {-1} \cup (1..MaxPages)
TocEntries == [level : Levels, title : Titles, page_num : TocPages]

RECURSIVE SeqsUpTo(_, _)
SeqsUpTo(S, n) ==
  IF n = 0 THEN {<< >>}
  ELSE LET shorter == SeqsUpTo(S, n - 1)
       IN  shorter \cup {Append(s, x) : s \in {t \in shorter : Len(t) = n - 1}, x \in S}

InitChapter ==
  /\ debug = FALSE
  /\ open_raises = FALSE
  /\ page_count \in 0..MaxPages
  /\ toc_raises \in BOOLEAN
  /\ toc \in IF toc_raises THEN {<< >>} ELSE SeqsUpTo(TocEntries, MaxToc)
  /\ annots = [p \in 1..page_count |-> << >>]
  /\ annots_raises = 0
  /\ write_raises = 0
  /\ ExtractorInit
  /\ FunctionsIdle

NextChapter == OpenPdf \/ BuildChapterMapEntry

SpecChapter == InitChapter /\ [][NextChapter]_vars

\* _build_chapter_map has gone through the whole of a non-empty outline.
ChapterMapBuilt == toc # << >> /\ toc_idx = Len(toc) + 1

\* The outline entries whose range(page_num, len + 1) holds page p.
Covering(p) == {i \in 1..Len(toc) : toc[i].page_num <= p}

Least(S) == CHOOSE i \in S : \A j \in S : i <= j
Greatest(S) == CHOOSE i \in S : \A j \in S : j <= i

\* C1 (as claimed): with all levels <= 2 and ascending start pages, every page
\* at or after the first entry's start page has the title of the last outline
\* entry that starts at or before it; the 3-page document with the outline
\* [(1, Introduction, 1), (1, Results, 2)] gets {1: Introduction, 2: Results,
\* 3: Results} and has useful chapters.
C1_MostRecentChapter ==
  ( /\ ChapterMapBuilt
    /\ \A i \in 1..Len(toc) : toc[i].level <= 2
    /\ \A i \in 1..(Len(toc) - 1) : toc[i].page_num < toc[i + 1].page_num )
  => /\ \A p \in 1..page_count :
          p >= toc[1].page_num
            => /\ p \in DOMAIN chapter_map
               /\ chapter_map[p] = toc[Greatest(Covering(p))].title
     /\ ( /\ page_count = 3
          /\ toc = << [level |-> 1, title |-> Introduction, page_num |-> 1],
                      [level |-> 1, title |-> Results, page_num |-> 2] >> )
        => /\ chapter_map = (1 :> Introduction @@ 2 :> Results @@ 3 :> Results)
           /\ has_useful_chapters(chapter_map)

lower(s) ==
  [i \in 1..Len(s) |->
     IF \E k \in 1..Len(UpperCase) : UpperCase[k] = s[i]
       THEN LowerCase[CHOOSE k \in 1..Len(UpperCase) : UpperCase[k] = s[i]]
       ELSE s[i]]

\* An empty document: the function runs are about one call.
NoDocument ==
  /\ debug = FALSE
  /\ open_raises = FALSE
  /\ page_count = 0
  /\ toc = << >>
  /\ toc_raises = FALSE
  /\ annots = << >>
  /\ annots_raises = 0
  /\ write_raises = 0

Pads == SeqsUpTo({" ", "\n"}, MaxPad)
Prefixes == {QUESTION, CORRECTION, ERROR, TYPO, NOTE}
Words ==
  {<< >>, << "x" >>, << "Q", "u" >>, << "E", "r", "r" >>}
  \cup Prefixes
  \cup {upper(w) : w \in Prefixes}
  \cup {lower(w) : w \in Prefixes}
Separators == {<< >>, << " " >>, << "-" >>, << ":" >>, << "s" >>}
Rests == {<< >>, << "w", "h", "y", "?" >>}

ClassifyInputs ==
  {a \o w \o sep \o r \o b :
     a \in Pads, w \in Words, sep \in Separators, r \in Rests, b \in Pads}

InitClassify ==
  /\ NoDocument
  /\ ExtractorInit
  /\ cc_text \in ClassifyInputs
  /\ cc_result = << >>
  /\ gc_input = << >>
  /\ gc_result = << >>

\* One call of classify_comment.
Classify ==
  /\ cc_result = << >>
  /\ cc_result' = classify_comment(cc_text)
  /\ UNCHANGED << inputs, pc, doc, used_closed, exit_code, extractor, reports,
                  cc_text, gc_input, gc_result >>

SpecClassify == InitClassify /\ [][Classify]_vars

\* C2: the category is decided by the trimmed, upper-cased text's prefix:
\* "Q " or "Q-" gives Question, else CORRECTION, ERROR, TYPO, NOTE give their
\* category, and everything else (a bare "Q", "Q" and another character) gives
\* Note; the result is always one of the five categories.
C2_ClassifiedByPrefix ==
  cc_result # << >>
  => LET t == upper(strip(cc_text))
         expected ==
           IF startswith(t, << "Q", " " >>) \/ startswith(t, << "Q", "-" >>)
             THEN QUESTION
           ELSE IF startswith(t, << "C", "O", "R", "R", "E", "C", "T", "I", "O", "N" >>)
             THEN CORRECTION
           ELSE IF startswith(t, << "E", "R", "R", "O", "R" >>) THEN ERROR
           ELSE IF startswith(t, << "T", "Y", "P", "O" >>) THEN TYPO
           ELSE NOTE
     IN  /\ cc_result \in CommentType
         /\ cc_result = expected
         /\ (t = << "Q" >> \/ (Len(t) > 1 /\ t[1] = "Q" /\ t[2] \notin {" ", "-"}))
              => cc_result = NOTE

\* A lower-case "q " question behind leading whitespace has been classified.
C2_Witness ==
  /\ cc_text = << " ", "q", " ", "w", "h", "y", "?" >>
  /\ cc_result = QUESTION

\* ------------------------------------------------------------------ _process_annotation
AllowedTypes == {0, 1, 2, 8, 15}

estimated_line_height == 20
top_margin == 72

Max(a, b) == IF a >= b THEN a ELSE b

\* estimate_line_number, from rect.y0
estimate_line_number(y0) ==
  LET adjusted_y == Max(0, y0 - top_margin)
      line_num == (adjusted_y \div estimated_line_height) + 1
  IN  Max(1, line_num)

\* How _process_annotation leaves for an annotation: an annotation's fault
\* is the attribute whose read raises ("type", "info", "rect", or "none").
\* annot.info is read for the debug print before the type check, and for the
\* content after it.
outcome_content_first(annot, dbg) ==
  IF annot.fault = "type" THEN "error"
  ELSE IF annot.fault = "info" THEN "error"
  ELSE IF strip(annot.content) = << >> THEN "no_content"
  ELSE IF annot.type \notin AllowedTypes THEN "type_not_allowed"
  ELSE IF annot.fault = "rect" THEN "error"
  ELSE "comment"

\* An except block that files the error under a skip reason.
outcome_error_tallied(annot, dbg) ==
  IF annot.fault = "type" THEN "type_not_allowed"
  ELSE IF dbg /\ annot.fault = "info" THEN "no_content"
  ELSE IF annot.type \notin AllowedTypes THEN "type_not_allowed"
  ELSE IF annot.fault = "info" THEN "no_content"
  ELSE IF strip(annot.content) = << >> THEN "no_content"
  ELSE IF annot.fault = "rect" THEN "no_content"
  ELSE "comment"

outcome(annot, dbg) ==
  IF annot.fault = "type" THEN "error"
  ELSE IF dbg /\ annot.fault = "info" THEN "error"
  ELSE IF annot.type \notin AllowedTypes THEN "type_not_allowed"
  ELSE IF annot.fault = "info" THEN "error"
  ELSE IF strip(annot.content) = << >> THEN "no_content"
  ELSE IF annot.fault = "rect" THEN "error"
  ELSE "comment"

\* self.skipped_annotations[reason] = self.skipped_annotations.get(reason, 0) + 1
tally(skipped, reason) ==
  [r \in DOMAIN skipped \cup {reason} |->
     IF r = reason
       THEN (IF r \in DOMAIN skipped THEN skipped[r] ELSE 0) + 1
       ELSE skipped[r]]

\* The reason strings name the cause and the annotation's type.
Reason(why, annot) == [why |-> why, type |-> annot.type]

\* A comment that carries the loop's 0-based page index.
PDFComment_zero_based(page, annot, id) ==
  [page_num |-> page - 1,
   line_num |-> estimate_line_number(annot.y0),
   comment_text |-> strip(annot.content),
   comment_type |-> classify_comment(strip(annot.content)),
   id |-> id]

\* PDFComment(...); id is the object's place in self.comments.
PDFComment(page, annot, id) ==
  [page_num |-> page,
   line_num |-> estimate_line_number(annot.y0),
   comment_text |-> strip(annot.content),
   comment_type |-> classify_comment(strip(annot.content)),
   id |-> id]

\* ------------------------------------------------------------------ extract_comments
\* "if not self.doc": a document's truth value is its page count (fitz.Document
\* defines __len__), so a document of no pages counts as not opened; main then
\* calls close(), which tests "if self.doc" again and closes nothing.
ExtractBegin ==
  /\ pc = "extract_comments"
  /\ IF page_count = 0
       THEN /\ pc' = "done"
            /\ exit_code' = "1"
            /\ UNCHANGED page_num
       ELSE /\ pc' = "page"
            /\ page_num' = 0
            /\ UNCHANGED exit_code
  /\ UseDoc
  /\ UNCHANGED << inputs, doc, chapter_map, current_chapter, toc_idx,
                  annot_idx, comments, skipped_annotations, comment_count,
                  total_annotations, warnings, reports, functions >>

\* The head of "for page_num in range(len(self.doc))": the page and its
\* annots(). An exception here is caught neither by extract_comments nor by
\* main.
ExtractPage ==
  /\ pc = "page"
  /\ IF page_num = page_count
       THEN \* the loop is over: return True
            /\ pc' = "generate"
            /\ UNCHANGED << page_num, annot_idx, exit_code >>
     ELSE IF annots_raises = page_num + 1
       THEN /\ pc' = "done"
            /\ exit_code' = "exception"
            /\ UNCHANGED << page_num, annot_idx >>
     ELSE IF annots[page_num + 1] = << >>
       THEN /\ page_num' = page_num + 1
            /\ UNCHANGED << pc, annot_idx, exit_code >>
     ELSE   /\ pc' = "annot"
            /\ annot_idx' = 1
            /\ UNCHANGED << page_num, exit_code >>
  /\ UseDoc
  /\ UNCHANGED << inputs, doc, chapter_map, current_chapter, toc_idx, comments,
                  skipped_annotations, comment_count, total_annotations,
                  warnings, reports, functions >>

\* One iteration of "for annot in annots": the count and _process_annotation;
\* after the page's last annotation the loop goes to the next page.
ProcessAnnotation ==
  /\ pc = "annot"
  /\ LET annot == annots[page_num + 1][annot_idx]
         how == outcome(annot, debug)
     IN  /\ total_annotations' = total_annotations + 1
         /\ comments' =
              IF how = "comment"
                THEN Append(comments, PDFComment(page_num + 1, annot, Len(comments) + 1))
                ELSE comments
         /\ comment_count' = comment_count + (IF how = "comment" THEN 1 ELSE 0)
         /\ skipped_annotations' =
              IF how \in {"type_not_allowed", "no_content"}
                THEN tally(skipped_annotations, Reason(how, annot))
                ELSE skipped_annotations
         /\ warnings' = warnings + (IF how = "error" THEN 1 ELSE 0)
  /\ IF annot_idx = Len(annots[page_num + 1])
       THEN /\ page_num' = page_num + 1
            /\ pc' = "page"
            /\ UNCHANGED annot_idx
       ELSE /\ annot_idx' = annot_idx + 1
            /\ UNCHANGED << pc, page_num >>
  /\ UNCHANGED << inputs, doc, used_closed, exit_code, chapter_map,
                  current_chapter, toc_idx, reports, functions >>

\* ------------------------------------------------------------------ MarkdownGenerator
\* A report is the sequence of the lines written: the title, the intro, the
\* "No ... found." placeholder, headings, comments (to_markdown) and the total.
NoComment ==
  [page_num |-> 0, line_num |-> 0, comment_text |-> << >>,
   comment_type |-> << >>, id |-> 0]

TitleLine == [kind |-> "title", key |-> << >>, n |-> 0, c |-> NoComment]
IntroLine == [kind |-> "intro", key |-> << >>, n |-> 0, c |-> NoComment]
EmptyLine == [kind |-> "empty", key |-> << >>, n |-> 0, c |-> NoComment]
Heading(level, key) == [kind |-> level, key |-> key, n |-> 0, c |-> NoComment]
CommentLine(c) == [kind |-> "comment", key |-> << >>, n |-> 0, c |-> c]
TotalLine(n) == [kind |-> "total", key |-> << >>, n |-> n, c |-> NoComment]

\* key=lambda c: (c.page_num, c.line_num)
KeyLeq(a, b) ==
  \/ a.page_num < b.page_num
  \/ a.page_num = b.page_num /\ a.line_num <= b.line_num

KeyLess(a, b) == ~KeyLeq(b, a)

\* sorted(list, key=...): stable, so an element goes behind the elements of
\* the same key that came before it.
RECURSIVE sorted_by_page_line_unstable(_)
sorted_by_page_line_unstable(cs) ==
  IF cs = << >> THEN << >>
  ELSE LET rest == sorted_by_page_line_unstable(SubSeq(cs, 1, Len(cs) - 1))
           x == cs[Len(cs)]
           before == SelectSeq(rest, LAMBDA y : KeyLess(y, x))
           after == SelectSeq(rest, LAMBDA y : KeyLeq(x, y))
       IN  before \o << x >> \o after

RECURSIVE sorted_by_page_line(_)
sorted_by_page_line(cs) ==
  IF cs = << >> THEN << >>
  ELSE LET rest == sorted_by_page_line(SubSeq(cs, 1, Len(cs) - 1))
           x == cs[Len(cs)]
           before == SelectSeq(rest, LAMBDA y : KeyLeq(y, x))
           after == SelectSeq(rest, LAMBDA y : KeyLess(x, y))
       IN  before \o << x >> \o after

\* Page keys compared as numbers would put "Page 2" before "Page 10".
RECURSIVE sorted_keys_by_length(_)
sorted_keys_by_length(keys) ==
  IF keys = {} THEN << >>
  ELSE LET least == CHOOSE k \in keys :
                      \A o \in keys \ {k} :
                        Len(k) < Len(o) \/ (Len(k) = Len(o) /\ StrLess(k, o))
       IN  << least >> \o sorted_keys_by_length(keys \ {least})

\* sorted(comments_by_group.keys())
RECURSIVE sorted_keys(_)
sorted_keys(keys) ==
  IF keys = {} THEN << >>
  ELSE LET least == CHOOSE k \in keys : \A o \in keys \ {k} : StrLess(k, o)
       IN  << least >> \o sorted_keys(keys \ {least})

\* The group key of a comment: the chapter, or the page.
group_key(c, map, use_chapters) ==
  IF use_chapters THEN get_chapter_for_page(map, c.page_num)
  ELSE PageKey(c.page_num)

RECURSIVE Flatten(_)
Flatten(ss) == IF ss = << >> THEN << >> ELSE Head(ss) \o Flatten(Tail(ss))

CommentLines(cs) == [i \in 1..Len(cs) |-> CommentLine(cs[i])]

\* The dict comments_by_group and the loop over its sorted keys.
grouped_lines(cs, map, use_chapters, level) ==
  LET keys == sorted_keys({group_key(cs[i], map, use_chapters) : i \in 1..Len(cs)})
      group(k) == SelectSeq(cs, LAMBDA c : group_key(c, map, use_chapters) = k)
  IN  Flatten([i \in 1..Len(keys) |->
                 << Heading(level, keys[i]) >>
                 \o CommentLines(sorted_by_page_line(group(keys[i])))])

generate_all_comments(cs, map) ==
  IF cs = << >> THEN << TitleLine, EmptyLine >>
  ELSE << TitleLine >>
       \o grouped_lines(cs, map, has_useful_chapters(map), "h2")
       \o << TotalLine(Len(cs)) >>

\* The comments of one category in student_corrections.md, without chapters.
type_lines_with_page_headings(type_comments, map, use_chapters) ==
  grouped_lines(type_comments, map, use_chapters, "h3")

type_lines(type_comments, map, use_chapters) ==
  IF use_chapters THEN grouped_lines(type_comments, map, TRUE, "h3")
  ELSE CommentLines(sorted_by_page_line(type_comments))

\* A student view that leaves the typos out.
StudentTypes_without_typo == {NOTE, CORRECTION, ERROR}

StudentTypes == {NOTE, CORRECTION, ERROR, TYPO}
StudentOrder == << ERROR, CORRECTION, TYPO, NOTE >>

generate_student_corrections(cs, map) ==
  LET student_comments == SelectSeq(cs, LAMBDA c : c.comment_type \in StudentTypes)
      use_chapters == has_useful_chapters(map)
      section(t) ==
        LET type_comments == SelectSeq(student_comments, LAMBDA c : c.comment_type = t)
        IN  IF type_comments = << >> THEN << >>
            ELSE << Heading("h2", t \o << "s" >>) >>
                 \o type_lines(type_comments, map, use_chapters)
  IN  IF student_comments = << >> THEN << TitleLine, IntroLine, EmptyLine >>
      ELSE << TitleLine, IntroLine >>
           \o Flatten([i \in 1..Len(StudentOrder) |-> section(StudentOrder[i])])
           \o << TotalLine(Len(student_comments)) >>

\* An empty report that closes with its total line as the others do.
generate_examiner_questions_with_total(cs, map) ==
  LET questions == SelectSeq(cs, LAMBDA c : c.comment_type = QUESTION)
  IN  IF questions = << >> THEN << TitleLine, IntroLine, EmptyLine, TotalLine(0) >>
      ELSE << TitleLine, IntroLine >>
           \o grouped_lines(questions, map, has_useful_chapters(map), "h2")
           \o << TotalLine(Len(questions)) >>

generate_examiner_questions(cs, map) ==
  LET questions == SelectSeq(cs, LAMBDA c : c.comment_type = QUESTION)
  IN  IF questions = << >> THEN << TitleLine, IntroLine, EmptyLine >>
      ELSE << TitleLine, IntroLine >>
           \o grouped_lines(questions, map, has_useful_chapters(map), "h2")
           \o << TotalLine(Len(questions)) >>

\* generate_all: the three files in order; an IOError of open() ends it.
generate_all(cs, map, failing) ==
  LET all == << generate_all_comments(cs, map),
                generate_student_corrections(cs, map),
                generate_examiner_questions(cs, map) >>
  IN  IF failing = 0 THEN all ELSE SubSeq(all, 1, failing - 1)

\* main's try block around MarkdownGenerator(...).generate_all()
GenerateAll ==
  /\ pc = "generate"
  /\ reports' = generate_all(comments, chapter_map, write_raises)
  /\ pc' = "close"
  /\ UNCHANGED << inputs, doc, used_closed, exit_code, extractor, functions >>

\* extractor.close() and main's return, in the except block or after the try.
\* The document has pages here, so "if self.doc" holds.
Close ==
  /\ pc = "close"
  /\ UseDoc
  /\ doc' = "closed"
  /\ exit_code' = IF write_raises = 0 THEN "0" ELSE "1"
  /\ pc' = "done"
  /\ UNCHANGED << inputs, extractor, reports, functions >>

Next ==
  \/ OpenPdf
  \/ BuildChapterMapEntry
  \/ ExtractBegin
  \/ ExtractPage
  \/ ProcessAnnotation
  \/ GenerateAll
  \/ Close

\* ------------------------------------------------------------------ documents
Annot(type, content, fault, y0) ==
  [type |-> type, content |-> content, fault |-> fault, y0 |-> y0]

\* The outline of the end-to-end example.
ExampleToc ==
  << [level |-> 1, title |-> Introduction, page_num |-> 1],
     [level |-> 1, title |-> Results, page_num |-> 2] >>

\* The lists of k pages' annotations over S with at most n annotations in all.
RECURSIVE PageLists(_, _, _)
PageLists(k, n, S) ==
  IF k = 0 THEN {<< >>}
  ELSE UNION {{<< first >> \o rest : rest \in PageLists(k - 1, n - Len(first), S)} :
                first \in SeqsUpTo(S, n)}

\* Annotations of every way out of _process_annotation: two comments, a type
\* that is not allowed, an allowed type without content, a rectangle that
\* raises, and an info that raises on a type that is not allowed.
MainAnnots ==
  { Annot(8, << "Q", "-", "a" >>, "none", 100),
    Annot(0, << " ", "b", " " >>, "none", 72),
    Annot(3, << "c" >>, "none", 72),
    Annot(15, << " " >>, "none", 72),
    Annot(8, << "d" >>, "rect", 72),
    Annot(3, << "e" >>, "info", 72) }

\* A run of main: any of the failures of the document and of the output
\* files, on documents of up to MaxPages pages and MaxAnnots annotations.
Init ==
  /\ debug \in BOOLEAN
  /\ open_raises \in BOOLEAN
  /\ page_count \in IF open_raises THEN {0}
                    ELSE (0..MaxPages) \cup {MAX_PAGE_COUNT + 1}
  /\ toc = ExampleToc
  /\ toc_raises = FALSE
  /\ annots \in IF page_count > MaxPages THEN {<< >>}
                ELSE PageLists(page_count, MaxAnnots, MainAnnots)
  /\ annots_raises \in IF page_count > MaxPages THEN {0} ELSE 0..page_count
  /\ write_raises \in IF annots_raises = 0 /\ page_count \in 1..MaxPages
                        THEN 0..3 ELSE {0}
  /\ ExtractorInit
  /\ FunctionsIdle

Spec == Init /\ [][Next]_vars

\* Runs about one annotation: a page whose last annotation is any combination
\* of type, content and fault, behind annotations that have left their marks
\* in the comments and in the tallies.
AnnotTypes == AllowedTypes \cup {3}
AnnotContents == {<< >>, << " " >>, << " ", "b", " " >>, << "Q", "-", "a" >>}
AnnotFaults == {"none", "type", "info", "rect"}
AnnotInputs ==
  {Annot(t, c, f, 100) : t \in AnnotTypes, c \in AnnotContents, f \in AnnotFaults}

InitAnnot ==
  /\ debug \in BOOLEAN
  /\ open_raises = FALSE
  /\ page_count = 1
  /\ toc = ExampleToc
  /\ toc_raises = FALSE
  /\ annots \in {<< earlier \o << last >> >> :
                   earlier \in SeqsUpTo(MainAnnots, MaxAnnots - 1),
                   last \in AnnotInputs}
  /\ annots_raises = 0
  /\ write_raises = 0
  /\ ExtractorInit
  /\ FunctionsIdle

SpecAnnot == InitAnnot /\ [][Next]_vars

\* ------------------------------------------------------------------ one annotation
\* The annotation _process_annotation is about to process.
ThisAnnot == annots[page_num + 1][annot_idx]

Accepted(a) == a.type \in {0, 1, 2, 8, 15}
HasContent(a) == strip(a.content) # << >>

\* Exactly one tally, the one of reason r, goes up by exactly 1.
OneTallied(r) ==
  /\ DOMAIN skipped_annotations' = DOMAIN skipped_annotations \cup {r}
  /\ skipped_annotations'[r] =
       (IF r \in DOMAIN skipped_annotations THEN skipped_annotations[r] ELSE 0) + 1
  /\ \A o \in DOMAIN skipped_annotations \ {r} :
       skipped_annotations'[o] = skipped_annotations[o]

OneAppended ==
  /\ Len(comments') = Len(comments) + 1
  /\ SubSeq(comments', 1, Len(comments)) = comments
  /\ comments'[Len(comments')].page_num = page_num + 1
  /\ comments'[Len(comments')].comment_text = strip(ThisAnnot.content)

\* The reads that raise before _process_annotation is through: the type; the
\* info, read in debug mode or for an accepted type; the rectangle, read for
\* an accepted type with content.
Raises(a) ==
  \/ a.fault = "type"
  \/ a.fault = "info" /\ (debug \/ Accepted(a))
  \/ a.fault = "rect" /\ Accepted(a) /\ HasContent(a)

\* C3 (as claimed): any annotation of an accepted kind with content appends
\* exactly one comment and changes no tally; any other annotation appends
\* none and raises exactly one tally by 1, the kind's when the kind is not
\* accepted.
C3_CommentOrTally ==
  [][pc = "annot"
       => IF Accepted(ThisAnnot) /\ HasContent(ThisAnnot)
            THEN OneAppended /\ UNCHANGED skipped_annotations
            ELSE /\ UNCHANGED comments
                 /\ \E r \in DOMAIN skipped_annotations' :
                      /\ OneTallied(r)
                      /\ ~Accepted(ThisAnnot) => r.why = "type_not_allowed"]_vars

\* C3 (amended): the same for the annotations whose processing raises no
\* error; an annotation whose processing raises appends no comment and changes
\* no tally.
C3_CommentOrTallyUnlessRaised ==
  [][pc = "annot"
       => IF Raises(ThisAnnot)
            THEN UNCHANGED << comments, skipped_annotations >>
          ELSE IF Accepted(ThisAnnot) /\ HasContent(ThisAnnot)
            THEN OneAppended /\ UNCHANGED skipped_annotations
            ELSE /\ UNCHANGED comments
                 /\ \E r \in DOMAIN skipped_annotations' :
                      /\ OneTallied(r)
                      /\ r.type = ThisAnnot.type
                      /\ r.why = IF Accepted(ThisAnnot) THEN "no_content"
                                 ELSE "type_not_allowed"]_vars

\* A page's annotations are through with a comment, a tally, and a last
\* annotation of a kind that is not accepted and has no content.
C3_Witness ==
  /\ pc = "page"
  /\ page_num = 1
  /\ Len(annots[1]) = 2
  /\ LET a == annots[1][2]
     IN  /\ ~Accepted(a) /\ ~HasContent(a) /\ a.fault = "none"
         /\ Reason("type_not_allowed", a) \in DOMAIN skipped_annotations
  /\ Len(comments) = 1

\* ------------------------------------------------------------------ main
\* C9 (as claimed): when main has ended on a path on which the document was
\* opened, the handle has been closed, and it was never used after its close.
C9_ClosedWhenMainEnds ==
  /\ (pc = "done" /\ doc # "none") => doc = "closed"
  /\ ~used_closed

\* The annotations of the document, page after page.
AllAnnots == Flatten(annots)

\* C10 (as claimed): an annotation whose processing raises leaves the comments
\* as they are, has a skip reason tallied, and the loop goes on; without a
\* failing page extract_comments returns with every annotation counted.
C10_ErrorTalliedAndSkipped ==
  /\ [][(pc = "annot" /\ Raises(ThisAnnot))
          => /\ UNCHANGED comments
             /\ \E r \in DOMAIN skipped_annotations' : OneTallied(r)
             /\ pc' \in {"annot", "page"}]_vars
  /\ []((pc = "generate") => total_annotations = Len(AllAnnots))

\* C10 (amended): the error is caught and reported by a warning; the
\* annotation adds no comment and no tally, the comments collected stay, the
\* loop goes on to the next annotation or page, and, unless a page's annots()
\* raises, extract_comments returns success with every annotation counted.
C10_ErrorWarnedAndSkipped ==
  /\ [][(pc = "annot" /\ Raises(ThisAnnot))
          => /\ UNCHANGED << comments, skipped_annotations, comment_count >>
             /\ warnings' = warnings + 1
             /\ total_annotations' = total_annotations + 1
             /\ exit_code' = "running"
             /\ IF annot_idx < Len(annots[page_num + 1])
                  THEN pc' = "annot" /\ annot_idx' = annot_idx + 1 /\ UNCHANGED page_num
                  ELSE pc' = "page" /\ page_num' = page_num + 1]_vars
  /\ [](annots_raises = 0 /\ pc \in {"annot", "page"} => exit_code = "running")
  /\ [](pc = "generate"
          => /\ total_annotations = Len(AllAnnots)
             /\ warnings = Len(SelectSeq(AllAnnots, Raises))
             /\ comment_count = Len(comments)
             /\ Len(comments) =
                  Len(SelectSeq(AllAnnots,
                        LAMBDA a : ~Raises(a) /\ Accepted(a) /\ HasContent(a))))

\* extract_comments has returned for a page whose first annotation raised on
\* its rectangle and whose second annotation gave a comment.
C10_Witness ==
  /\ pc = "generate"
  /\ \E p \in 1..page_count :
       /\ Len(annots[p]) = 2
       /\ annots[p][1].fault = "rect"
       /\ Raises(annots[p][1])
       /\ ~Raises(annots[p][2]) /\ Accepted(annots[p][2]) /\ HasContent(annots[p][2])
  /\ warnings = 1
  /\ Len(comments) = 1

\* ------------------------------------------------------------------ report runs
\* Outlines for the reports: none (page keys); two chapters over all pages;
\* two chapters that leave page 1 without an entry.
ReportTocs ==
  { << >>,
    << [level |-> 1, title |-> Results, page_num |-> 2],
       [level |-> 1, title |-> Introduction, page_num |-> 1] >>,
    << [level |-> 1, title |-> Results, page_num |-> 3],
       [level |-> 2, title |-> Introduction, page_num |-> 2] >> }

\* Annotations that give a comment of each category, on two lines.
ReportContents ==
  { << "Q", " ", "a" >>, << "e", "r", "r", "o", "r" >>,
    << "C", "o", "r", "r", "e", "c", "t", "i", "o", "n", ":" >>,
    << "t", "y", "p", "o" >>, << "b" >> }
ReportAnnots == {Annot(8, c, "none", y) : c \in ReportContents, y \in {72, 100}}

\* The pages that carry the annotations.
AnnotatedPages == << 1, 2, ReportPages >>

InitReport ==
  /\ debug = FALSE
  /\ open_raises = FALSE
  /\ page_count = ReportPages
  /\ toc \in ReportTocs
  /\ toc_raises = FALSE
  /\ annots \in
       {[p \in 1..ReportPages |->
           IF \E k \in 1..Len(AnnotatedPages) : AnnotatedPages[k] = p
             THEN lists[CHOOSE k \in 1..Len(AnnotatedPages) : AnnotatedPages[k] = p]
             ELSE << >>] :
          lists \in PageLists(Len(AnnotatedPages), MaxAnnots, ReportAnnots)}
  /\ annots_raises = 0
  /\ write_raises = 0
  /\ ExtractorInit
  /\ FunctionsIdle

SpecReport == InitReport /\ [][Next]_vars

ReportsWritten == Len(reports) = 3

\* The key a comment is grouped under in a report.
KeyOf(c) ==
  IF Cardinality({chapter_map[p] : p \in DOMAIN chapter_map}) > 1
       /\ c.page_num \in DOMAIN chapter_map
    THEN chapter_map[c.page_num]
    ELSE << "P", "a", "g", "e", " " >> \o str(c.page_num)

Lines(r, kinds) == {i \in 1..Len(r) : r[i].kind \in kinds}

\* The last line of one of the kinds at or before line i, 0 for none.
LastOf(r, i, kinds) == Greatest({0} \cup {j \in 1..i : r[j].kind \in kinds})

\* The category section of line i in the student-corrections report.
SectionOf(r, i) == LastOf(r, i, {"h2"})

\* Comments i < j written one after the other in the same group are in
\* (page, line) order, and in extraction order when they tie.
InOrder(a, b) ==
  \/ a.page_num < b.page_num
  \/ a.page_num = b.page_num /\ a.line_num < b.line_num
  \/ a.page_num = b.page_num /\ a.line_num = b.line_num /\ a.id < b.id

\* In the lines of r from the section's start on, the group headings of this
\* level are in ascending str order (so each key is there once), every
\* comment is under the heading of its key, and a group's comments are in
\* order. sectioned: the groups are inside "h2" category sections.
GroupedInOrder(r, level, sectioned) ==
  LET sec(i) == IF sectioned THEN SectionOf(r, i) ELSE 0
      head(i) == LastOf(r, i, {level})
  IN  /\ \A i, j \in Lines(r, {level}) :
           (i < j /\ sec(i) = sec(j)) => StrLess(r[i].key, r[j].key)
      /\ \A i \in Lines(r, {"comment"}) :
           /\ head(i) > sec(i)
           /\ r[head(i)].key = KeyOf(r[i].c)
      /\ \A i, j \in Lines(r, {"comment"}) :
           (i < j /\ head(i) = head(j)) => InOrder(r[i].c, r[j].c)

\* C4 (as claimed): in each of the three reports the group headings are in
\* ascending str order, each key once, and the comments of a group are in
\* (page, line) order, ties in extraction order.
C4_GroupsInOrder ==
  ReportsWritten
  => /\ GroupedInOrder(reports[1], "h2", FALSE)
     /\ GroupedInOrder(reports[2], "h3", FALSE)
     /\ GroupedInOrder(reports[3], "h2", FALSE)

\* C4 (amended): that holds of the all-comments and the examiner-questions
\* reports. In the student-corrections report it holds inside each category
\* section when chapters are useful (a key is written once per category);
\* without useful chapters the report has no group heading and the comments of
\* a category are in (page, line) order, ties in extraction order.
C4_GroupsInOrderPerSection ==
  ReportsWritten
  => /\ GroupedInOrder(reports[1], "h2", FALSE)
     /\ GroupedInOrder(reports[3], "h2", FALSE)
     /\ LET r == reports[2]
        IN  IF Cardinality({chapter_map[p] : p \in DOMAIN chapter_map}) > 1
              THEN GroupedInOrder(r, "h3", TRUE)
              ELSE /\ Lines(r, {"h3"}) = {}
                   /\ \A i, j \in Lines(r, {"comment"}) :
                        (i < j /\ SectionOf(r, i) = SectionOf(r, j))
                          => InOrder(r[i].c, r[j].c)

\* comments.md has the heading "Page 10" and after it the heading "Page 2",
\* each with a comment.
C4_Witness ==
  /\ ReportsWritten
  /\ \E i, j \in Lines(reports[1], {"h2"}) :
       /\ i < j
       /\ reports[1][i].key = << "P", "a", "g", "e", " ", "1", "0" >>
       /\ reports[1][j].key = << "P", "a", "g", "e", " ", "2" >>

\* The category headings of the student-corrections report: the categories
\* that have a comment, in the order Error, Correction, Typo, Note.
CategoriesInOrder(r) ==
  LET rank(key) == CHOOSE k \in 1..4 :
                     key = << ERROR, CORRECTION, TYPO, NOTE >>[k] \o << "s" >>
      present == {comments[i].comment_type : i \in 1..Len(comments)}
                   \cap {ERROR, CORRECTION, TYPO, NOTE}
  IN  /\ {r[i].key : i \in Lines(r, {"h2"})} = {t \o << "s" >> : t \in present}
      /\ \A i, j \in Lines(r, {"h2"}) : i < j => rank(r[i].key) < rank(r[j].key)
      /\ \A i \in Lines(r, {"comment"}) :
           /\ SectionOf(r, i) > 0
           /\ r[SectionOf(r, i)].key = r[i].c.comment_type \o << "s" >>

\* C5 (as claimed): the categories in their fixed order, and in both grouping
\* modes the comments of a category under one sub-heading per group key, the
\* sub-headings ascending.
C5_TwoLevels ==
  ReportsWritten
  => /\ CategoriesInOrder(reports[2])
     /\ GroupedInOrder(reports[2], "h3", TRUE)

\* C5 (amended): the categories in their fixed order; with useful chapters the
\* comments of a category are under one sub-heading per group key (the
\* chapter title, "Page N" for a page the map lacks), the sub-headings
\* ascending; without useful chapters there is no sub-heading and the
\* comments follow the category heading in (page, line) order.
C5_TwoLevelsWithChapters ==
  ReportsWritten
  => LET r == reports[2]
     IN  /\ CategoriesInOrder(r)
         /\ IF Cardinality({chapter_map[p] : p \in DOMAIN chapter_map}) > 1
              THEN GroupedInOrder(r, "h3", TRUE)
              ELSE /\ Lines(r, {"h3"}) = {}
                   /\ \A i \in Lines(r, {"comment"}) \cup Lines(r, {"total"}) :
                        r[i - 1].kind \in {"h2", "comment"}
                   /\ \A i, j \in Lines(r, {"comment"}) :
                        (i < j /\ SectionOf(r, i) = SectionOf(r, j))
                          => InOrder(r[i].c, r[j].c)

\* student_corrections.md without useful chapters: an Errors section and a
\* Notes section, no sub-heading.
C5_Witness ==
  /\ ReportsWritten
  /\ chapter_map = EmptyMap
  /\ LET r == reports[2]
     IN  \E i, j \in Lines(r, {"h2"}) :
           /\ i < j
           /\ r[i].key = << "E", "r", "r", "o", "r", "s" >>
           /\ r[j].key = << "N", "o", "t", "e", "s" >>
           /\ r[i + 1].kind = "comment"
           /\ r[j + 1].kind = "comment"

\* ------------------------------------------------------------------ get_context_text
max_length == 300

\* str.find(sub): the first index (from 0), -1 for none
find(s, sub) ==
  LET hits == {i \in 0..(Len(s) - Len(sub)) : SubSeq(s, i + 1, i + Len(sub)) = sub}
  IN  IF hits = {} THEN -1 ELSE Least(hits)

\* s[start:end]
Slice(s, start, end) == SubSeq(s, start + 1, end)

\* str.replace(old, new), old not empty
RECURSIVE replace(_, _, _)
replace(s, old, new) ==
  LET i == find(s, old)
  IN  IF i = -1 THEN s
      ELSE Slice(s, 0, i) \o new
           \o replace(Slice(s, i + Len(old), Len(s)), old, new)

\* " ".join(s.split()): no whitespace at the ends, one space for each run
collapse(s) ==
  LET kept(i) == \/ s[i] \notin Whitespace
                 \/ /\ i > 1 /\ s[i - 1] \notin Whitespace
                    /\ \E j \in (i + 1)..Len(s) : s[j] \notin Whitespace
      idx == SelectSeq([i \in 1..Len(s) |-> i], kept)
  IN  [k \in 1..Len(idx) |-> IF s[idx[k]] \in Whitespace THEN " " ELSE s[idx[k]]]

Ellipsis == << ".", ".", "." >>
Bold == << "*", "*" >>

\* "If we have highlighted text, mark it in bold"
mark_highlighted(context_text, highlighted_text) ==
  IF highlighted_text = << >> THEN context_text
  ELSE LET highlighted_clean == collapse(highlighted_text)
       IN  IF highlighted_clean # << >> /\ find(context_text, highlighted_clean) = -1
             THEN context_text
           ELSE IF highlighted_clean = << >>
             THEN \* "" is in every str, and replace("", "****") puts the four
                  \* asterisks before every character and at the end
                  [k \in 1..(5 * Len(context_text) + 4) |->
                     IF (k - 1) % 5 < 4 THEN "*"
                     ELSE context_text[((k - 1) \div 5) + 1]]
           ELSE LET highlighted_escaped ==
                      replace(highlighted_clean, << "*" >>, << "\\", "*" >>)
                IN  replace(context_text, highlighted_clean,
                            Bold \o highlighted_escaped \o Bold)

\* "Limit total length while keeping the highlighted portion": the second
\* test compares end with the length of the window just cut, not of the
\* context.
limit_length(context_text) ==
  IF Len(context_text) > max_length
    THEN IF find(context_text, Bold) # -1
           THEN LET bold_start == find(context_text, Bold)
                    start == Max(0, bold_start - (max_length \div 2))
                    end == IF Len(context_text) <= bold_start + (max_length \div 2)
                             THEN Len(context_text)
                             ELSE bold_start + (max_length \div 2)
                    window == Slice(context_text, start, end)
                    prefixed == IF start > 0 THEN Ellipsis \o window ELSE window
                IN  IF end < Len(prefixed) THEN prefixed \o Ellipsis ELSE prefixed
           ELSE Slice(context_text, 0, max_length) \o Ellipsis
    ELSE context_text

\* get_context_text from the text of the context rectangle on.
get_context_text(page_text, highlighted_text) ==
  LET context_text == limit_length(mark_highlighted(collapse(page_text), highlighted_text))
  IN  IF context_text # << >> THEN context_text ELSE highlighted_text

\* ------------------------------------------------------------------ get_context_text runs
Fill(n, ch) == [i \in 1..n |-> ch]

\* The text before the highlighted words: none, a few characters, and
\* lengths around the half window.
BeforeLengths ==
  (0..Slack) \cup ((max_length \div 2 - Slack)..(max_length \div 2 + Slack + 1))

\* The text after them: none, and enough to go past the window.
AfterLengths == {0, Slack, max_length \div 2, max_length}

\* The highlighted words: none, a blank, a few (one with an asterisk, one
\* over two lines), and lengths around what the half window holds behind its marker.
HighlightedTexts ==
  { << >>, << " " >>, << "k", "e", "y" >>, << "a", "*", "b" >>,
    << "t", "w", "o", "\n", "w" >> }
  \cup {Fill(n, "h") : n \in (max_length \div 2 - 4 - Slack)..(max_length \div 2 - 4 + Slack)}

ContextInputs ==
  [before : BeforeLengths, highlighted : HighlightedTexts, after : AfterLengths]

\* The page's text around the annotation: filler, the highlighted words as
\* the page has them (a line break is a space once collapsed), filler.
PageText(in) ==
  Fill(in.before, "x") \o in.highlighted
  \o (IF in.after = 0 THEN << >> ELSE << " " >> \o Fill(in.after - 1, "y"))

InitContext ==
  /\ NoDocument
  /\ ExtractorInit
  /\ cc_text = << >>
  /\ cc_result = << >>
  /\ gc_input \in ContextInputs
  /\ gc_result = << >>

\* One call of get_context_text; the result is kept with a mark, an empty
\* result being a result too.
GetContextText ==
  /\ gc_result = << >>
  /\ gc_result' = << get_context_text(PageText(gc_input), gc_input.highlighted) >>
  /\ UNCHANGED << inputs, pc, doc, used_closed, exit_code, extractor, reports,
                  cc_text, cc_result, gc_input >>

SpecContext == InitContext /\ [][GetContextText]_vars

\* The context with the highlighted words in bold, before it is cut.
Marked == mark_highlighted(collapse(PageText(gc_input)), gc_input.highlighted)

\* The bolded span of the context.
Span ==
  Bold \o replace(collapse(gc_input.highlighted), << "*" >>, << "\\", "*" >>) \o Bold

endswith(s, suffix) ==
  /\ Len(s) >= Len(suffix)
  /\ SubSeq(s, Len(s) - Len(suffix) + 1, Len(s)) = suffix

\* C8 (as claimed): a context of more than 300 characters with a bolded span
\* comes back with at most 306 characters, with the whole span, both markers
\* included, and with "..." at its end when the window stops before the end
\* of the context.
C8_SpanKeptAndEllipses ==
  ( /\ gc_result # << >>
    /\ collapse(gc_input.highlighted) # << >>
    /\ Len(Marked) > 300
    /\ find(Marked, Span) # -1 )
  => LET out == gc_result[1]
         window_end == find(Marked, Bold) + 150
     IN  /\ Len(out) <= 306
         /\ find(out, Span) # -1
         /\ window_end < Len(Marked) => endswith(out, Ellipsis)

\* ------------------------------------------------------------------ empty reports
\* The comments a report is about: all of them in comments.md, the Note,
\* Correction, Error and Typo comments in student_corrections.md, the Question
\* comments in examiner_questions.md.
Filtered(k) ==
  IF k = 1 THEN comments
  ELSE IF k = 2
    THEN SelectSeq(comments,
           LAMBDA c : c.comment_type \in {NOTE, CORRECTION, ERROR, TYPO})
  ELSE SelectSeq(comments, LAMBDA c : c.comment_type = QUESTION)

\* The kinds of the lines of a report, in order.
Kinds(r) == [i \in 1..Len(r) |-> r[i].kind]

\* The title, and the intro line of the two reports that have one.
Opening(k) == IF k = 1 THEN << "title" >> ELSE << "title", "intro" >>

\* C11 (as claimed): a report whose filtered comment set is empty (so each of
\* the three reports of a document without annotations) is its title, its
\* intro line if it has one, the "No ... found." line and the total line with
\* the count 0, and has no group heading.
C11_EmptyReportWithTotal ==
  \A k \in 1..Len(reports) :
    Filtered(k) = << >>
      => /\ Kinds(reports[k]) = Opening(k) \o << "empty", "total" >>
         /\ reports[k][Len(reports[k])].n = 0

\* C11 (amended): such a report is its title, its intro line if it has one,
\* and the "No ... found." line, which is its last line: it has no total line
\* and no group heading. A report whose filtered set is not empty has no
\* "No ... found." line and ends with the total line of the set's size. The
\* reports are written for a document of at least one page whose pages all
\* list their annotations.
C11_EmptyReportWithoutTotal ==
  /\ \A k \in 1..Len(reports) :
       IF Filtered(k) = << >>
         THEN Kinds(reports[k]) = Opening(k) \o << "empty" >>
         ELSE /\ Lines(reports[k], {"empty"}) = {}
              /\ Lines(reports[k], {"total"}) = {Len(reports[k])}
              /\ reports[k][Len(reports[k])].n = Len(Filtered(k))
  /\ reports # << >> => page_count >= 1 /\ annots_raises = 0
  /\ (pc \in {"close", "done"} /\ write_raises = 0 /\ annots_raises = 0
        /\ page_count \in 1..MAX_PAGE_COUNT /\ ~open_raises)
       => Len(reports) = 3

\* The three reports of a document of some pages and no annotation.
C11_Witness ==
  /\ page_count >= 1
  /\ AllAnnots = << >>
  /\ Len(reports) = 3
  /\ \A k \in 1..3 : reports[k][Len(reports[k])].kind = "empty"

\* ------------------------------------------------------------------ outline runs
\* Runs of main on documents of 1..MaxPages pages, a comment on each page (a
\* question on the odd pages, a note on the even ones), over outlines that
\* fail, are empty, start past the last page, give one title or give two.
OutlineEntries == [level : {1, 3}, title : Titles, page_num : {1, MaxPages}]

OutlineAnnots(p) ==
  IF p % 2 = 1 THEN << Annot(8, << "Q", "-", "a" >>, "none", 100) >>
  ELSE << Annot(0, << " ", "b", " " >>, "none", 72) >>

InitOutline ==
  /\ debug = FALSE
  /\ open_raises = FALSE
  /\ page_count \in 1..MaxPages
  /\ toc_raises \in BOOLEAN
  /\ toc \in IF toc_raises THEN {<< >>} ELSE SeqsUpTo(OutlineEntries, MaxToc)
  /\ annots = [p \in 1..page_count |-> OutlineAnnots(p)]
  /\ annots_raises = 0
  /\ write_raises = 0
  /\ ExtractorInit
  /\ FunctionsIdle

SpecOutline == InitOutline /\ [][Next]_vars

\* Two pages of the map have different titles.
TwoTitles ==
  \E p, q \in DOMAIN chapter_map : chapter_map[p] # chapter_map[q]

PageHeading(n) == << "P", "a", "g", "e", " " >> \o str(n)
PageHeading_of(c) == PageHeading(c.page_num)

\* The key the reports group a comment under: its page's title when the map
\* has two titles and has the page, "Page N" otherwise.
ChapterOrPage(c) ==
  IF TwoTitles /\ c.page_num \in DOMAIN chapter_map
    THEN chapter_map[c.page_num]
    ELSE PageHeading(c.page_num)

\* Every comment of the report is under a heading of this level that names
\* the comment's key.
UnderKeys(r, level, key(_)) ==
  \A i \in Lines(r, {"comment"}) :
    /\ LastOf(r, i, {level}) > 0
    /\ r[LastOf(r, i, {level})].key = key(r[i].c)

\* has_useful_chapters() is true exactly when the map has two titles, and the
\* all-comments and examiner-questions reports group by chapter exactly then.
UsefulIffTwoTitles ==
  /\ has_useful_chapters(chapter_map) <=> TwoTitles
  /\ chapter_map = EmptyMap => ~has_useful_chapters(chapter_map)
  /\ ReportsWritten
       => /\ UnderKeys(reports[1], "h2", ChapterOrPage)
          /\ UnderKeys(reports[3], "h2", ChapterOrPage)
          /\ Lines(reports[2], {"h3"}) # {} <=> (TwoTitles /\ Filtered(2) # << >>)

\* An outline that fails or is empty leaves the map empty and open_pdf
\* returns True with the document open.
EmptyOutlineIsNotFatal ==
  /\ [](toc_raises \/ toc = << >> => chapter_map = EmptyMap)
  /\ [][(pc = "open_pdf" /\ (toc_raises \/ toc = << >>))
          => /\ pc' = "extract_comments"
             /\ doc' = "open"
             /\ exit_code' = "running"]_vars

\* C12 (as claimed): has_useful_chapters() is true exactly when the map has
\* more than one distinct title, false for one title or none; an outline that
\* fails or is empty leaves the map empty without failing open_pdf, and all
\* three reports then group their comments under "Page N" headings.
C12_UsefulOrAllByPage ==
  /\ []UsefulIffTwoTitles
  /\ EmptyOutlineIsNotFatal
  /\ []((ReportsWritten /\ (toc_raises \/ toc = << >>))
          => /\ UnderKeys(reports[1], "h2", PageHeading_of)
             /\ UnderKeys(reports[2], "h3", PageHeading_of)
             /\ UnderKeys(reports[3], "h2", PageHeading_of))

\* C12 (amended): the same, but with the map empty the all-comments and the
\* examiner-questions reports group under "Page N" headings and the
\* student-corrections report writes its comments under the category headings
\* without any group heading.
C12_UsefulOrByPage ==
  /\ []UsefulIffTwoTitles
  /\ EmptyOutlineIsNotFatal
  /\ []((ReportsWritten /\ (toc_raises \/ toc = << >>))
          => /\ UnderKeys(reports[1], "h2", PageHeading_of)
             /\ UnderKeys(reports[3], "h2", PageHeading_of)
             /\ Lines(reports[2], {"h3"}) = {}
             /\ \A i \in Lines(reports[2], {"comment"}) :
                  reports[2][i - 1].kind \in {"h2", "comment"})

\* The reports of a two-page document whose outline could not be read.
C12_Witness ==
  /\ toc_raises
  /\ page_count = 2
  /\ ReportsWritten
  /\ Len(Filtered(2)) = 1
  /\ Len(Filtered(3)) = 1

\* ------------------------------------------------------------------ document order
\* The annotations of the document in document order, each with its 1-based
\* page.
PagedAnnots ==
  Flatten([p \in 1..Len(annots) |->
             [i \in 1..Len(annots[p]) |-> [page |-> p, a |-> annots[p][i]]]])

\* The annotation gives a comment: an accepted kind, content, no read raises.
Produces(pa) == ~Raises(pa.a) /\ Accepted(pa.a) /\ HasContent(pa.a)

\* The sum of the skip tallies.
RECURSIVE SumOver(_, _)
SumOver(f, S) ==
  IF S = {} THEN 0
  ELSE LET x == CHOOSE y \in S : TRUE IN f[x] + SumOver(f, S \ {x})

\* The annotations that returned no comment: the tallied and the warned ones.
NoCommentReturns == SumOver(skipped_annotations, DOMAIN skipped_annotations) + warnings

\* The pages and texts of the comments, in the order of self.comments.
PagesAndTexts(cs) == [i \in 1..Len(cs) |-> << cs[i].page_num, cs[i].comment_text >>]

\* C13: pages are processed in ascending order and a page's annotations in
\* the order the document lists them: at any time the comments are the
\* comments of the annotations counted so far, in document order, so their
\* page_num is non-decreasing and in 1..page_count, and the annotations
\* counted are the comments appended plus the annotations that returned no
\* comment; when extract_comments returns True every annotation is counted.
C13_DocumentOrder ==
  /\ [][page_num' \in {page_num, page_num + 1}]_vars
  /\ [](/\ total_annotations <= Len(PagedAnnots)
        /\ LET counted == SubSeq(PagedAnnots, 1, total_annotations)
               giving == SelectSeq(counted, Produces)
           IN  /\ PagesAndTexts(comments) =
                    [i \in 1..Len(giving) |->
                       << giving[i].page, strip(giving[i].a.content) >>]
               /\ \A i \in 1..Len(counted) :
                    counted[i].page <= page_num + 1
        /\ \A i \in 1..Len(comments) : comments[i].page_num \in 1..page_count
        /\ \A i \in 1..(Len(comments) - 1) :
             comments[i].page_num <= comments[i + 1].page_num
        /\ comment_count = Len(comments)
        /\ total_annotations = Len(comments) + NoCommentReturns
        /\ pc \in {"generate", "close"} => total_annotations = Len(PagedAnnots))

\* extract_comments has returned with two comments of page 2 of a document of
\* three pages, the texts different.
C13_Witness ==
  /\ pc = "generate"
  /\ page_count = 3
  /\ Len(comments) = 2
  /\ comments[1].page_num = 2
  /\ comments[2].page_num = 2
  /\ comments[1].comment_text # comments[2].comment_text

\* ------------------------------------------------------------------ the three views
\* How many times the report writes the comment.
Times(r, c) == Cardinality({i \in Lines(r, {"comment"}) : r[i].c = c})

\* The count of the report's total line; a report without one has the
\* "No ... found." line and no comment, and its total is taken as 0.
Total(r) ==
  IF Lines(r, {"total"}) = {} THEN 0
  ELSE r[CHOOSE i \in Lines(r, {"total"}) : TRUE].n

\* C14: every comment is written exactly once in comments.md and exactly once
\* in the other two reports together, a Question in examiner_questions.md
\* only, a Note, Correction, Error or Typo in student_corrections.md only;
\* the reports write nothing else, each total is the number of comments its
\* report writes, and the total of comments.md is the sum of the other two.
C14_ViewsPartition ==
  ReportsWritten
  => /\ \A i \in 1..Len(comments) :
          LET c == comments[i]
          IN  /\ Times(reports[1], c) = 1
              /\ Times(reports[2], c) + Times(reports[3], c) = 1
              /\ c.comment_type = QUESTION => Times(reports[3], c) = 1
              /\ c.comment_type \in {NOTE, CORRECTION, ERROR, TYPO}
                   => Times(reports[2], c) = 1
     /\ \A k \in 1..3 :
          /\ \A i \in Lines(reports[k], {"comment"}) :
               \E j \in 1..Len(comments) : reports[k][i].c = comments[j]
          /\ Total(reports[k]) = Cardinality(Lines(reports[k], {"comment"}))
          /\ Lines(reports[k], {"total"}) = {}
               <=> Lines(reports[k], {"comment"}) = {}
     /\ Total(reports[1]) = Len(comments)
     /\ Total(reports[1]) = Total(reports[2]) + Total(reports[3])

\* The reports of a question and a typo.
C14_Witness ==
  /\ ReportsWritten
  /\ Len(comments) = 2
  /\ {comments[1].comment_type, comments[2].comment_type} = {QUESTION, TYPO}
  /\ Total(reports[2]) = 1
  /\ Total(reports[3]) = 1

====
